---- MODULE Spec2Model ----
(***************************************************************************)
(* Model of sealfs src/common/serialization.rs: the operation registry     *)
(* (opcode <-> integer), the server / cluster status codes with the        *)
(* manager's orchestration over them, the directory entry set              *)
(* (SubDirectory) and the raw attribute-record codec.                      *)
(*                                                                         *)
(* The module holds five independent state machines over disjoint          *)
(* variables; each specification moves one of them and leaves the others   *)
(* at their initial value:                                                 *)
(*   SpecRegistry  - opcodes sent / injected on the wire and decoded       *)
(*   SpecManager   - server status updates, add/remove requests, barrier   *)
(*   SpecDir       - SubDirectory::new / add_* / delete_*                  *)
(*   SpecAttr      - bytes_as_file_attr over buffers of any length         *)
(*   SpecRecord    - FileAttrSimple::new, as_bytes / as_mut_bytes, the     *)
(*                   conversion to FileAttr, tostat / tostatx              *)
(***************************************************************************)
EXTENDS Integers, Sequences, FiniteSets, TLC

VARIABLES
    wire,           \* registry: the u32 opcode in flight and who produced it
    decoded,        \* registry: the receiver's decode outcome for `wire`
    cluster_status, \* manager: the cluster status, stored as its i32 code
    servers,        \* manager: server -> ServerStatus
    hash_ring,      \* manager: the current ring (set of servers)
    new_hash_ring,  \* manager: the ring being moved to
    participants,   \* manager: servers taking part in the rebalance in progress
    last_request,   \* manager: the last request handled and its outcome
    sub_dir,        \* directory: SubDirectory.sub_dir (name -> type tag)
    dir_calls,      \* directory: the last two calls with the map before each
    attr_buf,       \* attr codec: the byte buffer handed to the decoder
    attr_out,       \* attr codec: the decode outcome
    attr_simple,    \* record: the FileAttrSimple at hand
    simple_op,      \* record: the last call, the type the record was made for
    simple_bytes,   \* record: the bytes taken from as_bytes
    simple_back,    \* record: the record the bytes were written back into
    file_attr,      \* record: the fuser::FileAttr converted from attr_simple
    stat_buf,        \* record: the `stat` buffer
    statx_buf        \* record: the `statx` buffer

vars == <<wire, decoded, cluster_status, servers, hash_ring, new_hash_ring,
          participants, last_request, sub_dir, dir_calls, attr_buf, attr_out,
          attr_simple, simple_op, simple_bytes, simple_back, file_attr,
          stat_buf, statx_buf>>

registry_vars == <<wire, decoded>>
manager_vars == <<cluster_status, servers, hash_ring, new_hash_ring,
                  participants, last_request>>
dir_vars == <<sub_dir, dir_calls>>
attr_vars == <<attr_buf, attr_out>>
record_vars == <<attr_simple, simple_op, simple_bytes, simple_back, file_attr,
                 stat_buf, statx_buf>>

\* What a step of one machine leaves alone.
not_registry == <<manager_vars, dir_vars, attr_vars, record_vars>>
not_manager == <<registry_vars, dir_vars, attr_vars, record_vars>>
not_dir == <<registry_vars, manager_vars, attr_vars, record_vars>>
not_attr == <<registry_vars, manager_vars, dir_vars, record_vars>>
not_record == <<registry_vars, manager_vars, dir_vars, attr_vars>>

(***************************************************************************)
(* Result values.  A Rust `Result` is Ok(v) or Err(e); a `panic!` unwinds  *)
(* instead of returning and is a third outcome.                            *)
(***************************************************************************)
Ok(v) == [tag |-> "Ok", val |-> v]
Err(e) == [tag |-> "Err", val |-> e]
Panic(m) == [tag |-> "Panic", val |-> m]
NoResult == [tag |-> "None", val |-> "-"]

(***************************************************************************)
(* Operation registry                                                      *)
(***************************************************************************)

\* Largest of the consecutive opcode integers tried.
MaxOpcodeInput == 112

\* The u32 values a peer may put on the wire: every small value and the
\* values around the u8 and u16 limits.
OpcodeInputs == (0..MaxOpcodeInput) \cup {255, 256, 65535, 65536}

OperationType ==
    {"Unkown", "Lookup", "CreateFile", "CreateDir", "GetFileAttr", "ReadDir",
     "OpenFile", "ReadFile", "WriteFile", "DeleteFile", "DeleteDir",
     "DirectoryAddEntry", "DirectoryDeleteEntry", "TruncateFile", "CheckFile",
     "CheckDir", "CreateDirNoParent", "CreateFileNoParent", "DeleteDirNoParent",
     "DeleteFileNoParent", "CreateVolume", "InitVolume", "ListVolumes",
     "DeleteVolume", "CleanVolume"}

ManagerOperationType ==
    {"SendHeart", "GetMetadata", "GetClusterStatus", "GetHashRing",
     "GetNewHashRing", "AddNodes", "RemoveNodes", "UpdateServerStatus",
     "FinishServer"}

\* impl TryFrom<u32> for OperationType
OperationType_try_from(value) ==
    CASE value = 0 -> Ok("Unkown")
      [] value = 1 -> Ok("Lookup")
      [] value = 2 -> Ok("CreateFile")
      [] value = 3 -> Ok("CreateDir")
      [] value = 4 -> Ok("GetFileAttr")
      [] value = 5 -> Ok("ReadDir")
      [] value = 6 -> Ok("OpenFile")
      [] value = 7 -> Ok("ReadFile")
      [] value = 8 -> Ok("WriteFile")
      [] value = 9 -> Ok("DeleteFile")
      [] value = 10 -> Ok("DeleteDir")
      [] value = 11 -> Ok("DirectoryAddEntry")
      [] value = 12 -> Ok("DirectoryDeleteEntry")
      [] value = 13 -> Ok("TruncateFile")
      [] value = 14 -> Ok("CheckFile")
      [] value = 15 -> Ok("CheckDir")
      [] value = 16 -> Ok("CreateDirNoParent")
      [] value = 17 -> Ok("CreateFileNoParent")
      [] value = 18 -> Ok("DeleteDirNoParent")
      [] value = 19 -> Ok("DeleteFileNoParent")
      [] value = 20 -> Ok("CreateVolume")
      [] value = 21 -> Ok("InitVolume")
      [] value = 22 -> Ok("ListVolumes")
      [] value = 23 -> Ok("DeleteVolume")
      [] value = 24 -> Ok("CleanVolume")
      [] OTHER -> Panic("Unkown value")

\* The encoder with two arms transposed (a copy-paste slip in the table).
u32_from_OperationType_swapped(value) ==
    CASE value = "Unkown" -> 0
      [] value = "Lookup" -> 1
      [] value = "CreateFile" -> 2
      [] value = "CreateDir" -> 3
      [] value = "GetFileAttr" -> 4
      [] value = "ReadDir" -> 5
      [] value = "OpenFile" -> 6
      [] value = "ReadFile" -> 7
      [] value = "WriteFile" -> 8
      [] value = "DeleteFile" -> 9
      [] value = "DeleteDir" -> 10
      [] value = "DirectoryAddEntry" -> 11
      [] value = "DirectoryDeleteEntry" -> 12
      [] value = "TruncateFile" -> 13
      [] value = "CheckFile" -> 14
      [] value = "CheckDir" -> 15
      [] value = "CreateDirNoParent" -> 17
      [] value = "CreateFileNoParent" -> 16
      [] value = "DeleteDirNoParent" -> 18
      [] value = "DeleteFileNoParent" -> 19
      [] value = "CreateVolume" -> 20
      [] value = "InitVolume" -> 21
      [] value = "ListVolumes" -> 22
      [] value = "DeleteVolume" -> 23
      [] value = "CleanVolume" -> 24

\* impl From<OperationType> for u32
u32_from_OperationType(value) ==
    CASE value = "Unkown" -> 0
      [] value = "Lookup" -> 1
      [] value = "CreateFile" -> 2
      [] value = "CreateDir" -> 3
      [] value = "GetFileAttr" -> 4
      [] value = "ReadDir" -> 5
      [] value = "OpenFile" -> 6
      [] value = "ReadFile" -> 7
      [] value = "WriteFile" -> 8
      [] value = "DeleteFile" -> 9
      [] value = "DeleteDir" -> 10
      [] value = "DirectoryAddEntry" -> 11
      [] value = "DirectoryDeleteEntry" -> 12
      [] value = "TruncateFile" -> 13
      [] value = "CheckFile" -> 14
      [] value = "CheckDir" -> 15
      [] value = "CreateDirNoParent" -> 16
      [] value = "CreateFileNoParent" -> 17
      [] value = "DeleteDirNoParent" -> 18
      [] value = "DeleteFileNoParent" -> 19
      [] value = "CreateVolume" -> 20
      [] value = "InitVolume" -> 21
      [] value = "ListVolumes" -> 22
      [] value = "DeleteVolume" -> 23
      [] value = "CleanVolume" -> 24

\* impl TryFrom<u32> for ManagerOperationType
ManagerOperationType_try_from(value) ==
    CASE value = 101 -> Ok("SendHeart")
      [] value = 102 -> Ok("GetMetadata")
      [] value = 103 -> Ok("GetClusterStatus")
      [] value = 104 -> Ok("GetHashRing")
      [] value = 105 -> Ok("GetNewHashRing")
      [] value = 106 -> Ok("AddNodes")
      [] value = 107 -> Ok("RemoveNodes")
      [] value = 108 -> Ok("UpdateServerStatus")
      [] value = 109 -> Ok("FinishServer")
      [] OTHER -> Panic("Unkown value")

\* impl From<ManagerOperationType> for u32
u32_from_ManagerOperationType(value) ==
    CASE value = "SendHeart" -> 101
      [] value = "GetMetadata" -> 102
      [] value = "GetClusterStatus" -> 103
      [] value = "GetHashRing" -> 104
      [] value = "GetNewHashRing" -> 105
      [] value = "AddNodes" -> 106
      [] value = "RemoveNodes" -> 107
      [] value = "UpdateServerStatus" -> 108
      [] value = "FinishServer" -> 109

\* The wire before anything was sent.
NoWire == [ty |-> "-", kind |-> "-", code |-> 0, by |-> "none"]

\* A sender encodes an OperationType and puts its u32 on the wire.
SendOperation ==
    /\ \E k \in OperationType :
          wire' = [ty |-> "OperationType", kind |-> k,
                   code |-> u32_from_OperationType(k), by |-> "encode"]
    /\ decoded' = NoResult
    /\ UNCHANGED not_registry

\* A sender encodes a ManagerOperationType and puts its u32 on the wire.
SendManagerOperation ==
    /\ \E k \in ManagerOperationType :
          wire' = [ty |-> "ManagerOperationType", kind |-> k,
                   code |-> u32_from_ManagerOperationType(k), by |-> "encode"]
    /\ decoded' = NoResult
    /\ UNCHANGED not_registry

\* A peer puts an arbitrary u32 on the wire (malformed or version-skewed).
InjectOpcode ==
    /\ \E v \in OpcodeInputs, t \in {"OperationType", "ManagerOperationType"} :
          wire' = [ty |-> t, kind |-> "-", code |-> v, by |-> "peer"]
    /\ decoded' = NoResult
    /\ UNCHANGED not_registry

\* The receiver decodes the u32 on the wire with try_from of the expected type.
ReceiveOpcode ==
    /\ wire.by # "none"
    /\ decoded = NoResult
    /\ decoded' = IF wire.ty = "OperationType"
                  THEN OperationType_try_from(wire.code)
                  ELSE ManagerOperationType_try_from(wire.code)
    /\ UNCHANGED wire
    /\ UNCHANGED not_registry

(***************************************************************************)
(* Server status and cluster status codes                                  *)
(***************************************************************************)

ServerStatus ==
    {"Initializing", "PreTransfer", "Transferring", "PreFinish", "Finishing",
     "Finished"}

ClusterStatus ==
    {"Initializing", "Idle", "NodesStarting", "SyncNewHashRing", "PreTransfer",
     "Transferring", "PreFinish", "Finishing", "StatusError"}

\* impl TryFrom<u32> for ServerStatus
ServerStatus_try_from(value) ==
    CASE value = 201 -> Ok("Initializing")
      [] value = 202 -> Ok("PreTransfer")
      [] value = 203 -> Ok("Transferring")
      [] value = 204 -> Ok("PreFinish")
      [] value = 205 -> Ok("Finishing")
      [] value = 206 -> Ok("Finished")
      [] OTHER -> Err("Unkown value")

\* The encoder with the discriminants of two neighbouring variants exchanged.
u32_from_ServerStatus_swapped(value) ==
    CASE value = "Initializing" -> 201
      [] value = "PreTransfer" -> 202
      [] value = "Transferring" -> 204
      [] value = "PreFinish" -> 203
      [] value = "Finishing" -> 205
      [] value = "Finished" -> 206

\* impl From<ServerStatus> for u32
u32_from_ServerStatus(value) ==
    CASE value = "Initializing" -> 201
      [] value = "PreTransfer" -> 202
      [] value = "Transferring" -> 203
      [] value = "PreFinish" -> 204
      [] value = "Finishing" -> 205
      [] value = "Finished" -> 206

\* The decoder with one arm returning the variant of the arm above it.
ClusterStatus_try_from_i32_idle_twice(value) ==
    CASE value = 300 -> Ok("Initializing")
      [] value = 301 -> Ok("Idle")
      [] value = 302 -> Ok("Idle")
      [] value = 303 -> Ok("SyncNewHashRing")
      [] value = 304 -> Ok("PreTransfer")
      [] value = 305 -> Ok("Transferring")
      [] value = 306 -> Ok("PreFinish")
      [] value = 307 -> Ok("Finishing")
      [] value = 308 -> Ok("StatusError")
      [] OTHER -> Err("Unkown value")

\* impl TryFrom<i32> for ClusterStatus
ClusterStatus_try_from_i32(value) ==
    CASE value = 300 -> Ok("Initializing")
      [] value = 301 -> Ok("Idle")
      [] value = 302 -> Ok("NodesStarting")
      [] value = 303 -> Ok("SyncNewHashRing")
      [] value = 304 -> Ok("PreTransfer")
      [] value = 305 -> Ok("Transferring")
      [] value = 306 -> Ok("PreFinish")
      [] value = 307 -> Ok("Finishing")
      [] value = 308 -> Ok("StatusError")
      [] OTHER -> Err("Unkown value")

\* The encoder with one discriminant repeated from another arm.
i32_from_ClusterStatus_error_as_finishing(value) ==
    CASE value = "Initializing" -> 300
      [] value = "Idle" -> 301
      [] value = "NodesStarting" -> 302
      [] value = "SyncNewHashRing" -> 303
      [] value = "PreTransfer" -> 304
      [] value = "Transferring" -> 305
      [] value = "PreFinish" -> 306
      [] value = "Finishing" -> 307
      [] value = "StatusError" -> 307

\* The encoder with the discriminants of two neighbouring variants exchanged.
i32_from_ClusterStatus_swapped(value) ==
    CASE value = "Initializing" -> 300
      [] value = "Idle" -> 301
      [] value = "NodesStarting" -> 302
      [] value = "SyncNewHashRing" -> 303
      [] value = "PreTransfer" -> 305
      [] value = "Transferring" -> 304
      [] value = "PreFinish" -> 306
      [] value = "Finishing" -> 307
      [] value = "StatusError" -> 308

\* impl From<ClusterStatus> for i32
i32_from_ClusterStatus(value) ==
    CASE value = "Initializing" -> 300
      [] value = "Idle" -> 301
      [] value = "NodesStarting" -> 302
      [] value = "SyncNewHashRing" -> 303
      [] value = "PreTransfer" -> 304
      [] value = "Transferring" -> 305
      [] value = "PreFinish" -> 306
      [] value = "Finishing" -> 307
      [] value = "StatusError" -> 308

(***************************************************************************)
(* Manager orchestration over the status codes.  The manager is the single *)
(* writer of the cluster status and of every server status; each action    *)
(* below is one request handled under its serialization point.             *)
(***************************************************************************)

\* Number of servers that may ever register with the manager.
MaxServers == 2

Servers == 1..MaxServers

\* Status codes a server may send in an UpdateServerStatus payload:
\* the declared codes and one undeclared code on either side.
StatusCodeInputs == 200..207

\* The cluster status as the manager reads it back from its stored code.
get_cluster_status == ClusterStatus_try_from_i32(cluster_status).val

\* A rebalance (or start-up) is in progress: neither Idle nor StatusError.
InProgress == get_cluster_status \notin {"Idle", "StatusError"}

\* Happy-path successor of a cluster status.
NextClusterStatus(c) ==
    CASE c = "NodesStarting" -> "SyncNewHashRing"
      [] c = "SyncNewHashRing" -> "PreTransfer"
      [] c = "PreTransfer" -> "Transferring"
      [] c = "Transferring" -> "PreFinish"
      [] c = "PreFinish" -> "Finishing"
      [] c = "Finishing" -> "Idle"

\* The per-server status every participant must have reached before the
\* cluster may enter status c.
RequiredServerStatus(c) ==
    CASE c = "SyncNewHashRing" -> "Initializing"
      [] c = "PreTransfer" -> "PreTransfer"
      [] c = "Transferring" -> "Transferring"
      [] c = "PreFinish" -> "PreFinish"
      [] c = "Finishing" -> "Finishing"
      [] c = "Idle" -> "Finished"

\* Server s has reached status t (it is at t or further along).
HasReached(s, t) == u32_from_ServerStatus(servers[s]) >= u32_from_ServerStatus(t)

\* The requested status is exactly one step after the current one.
IsNextServerStatus(cur, req) ==
    u32_from_ServerStatus(req) = u32_from_ServerStatus(cur) + 1

Request(k, s, c, a) == [kind |-> k, server |-> s, code |-> c, accepted |-> a]

\* The manager finished starting: Initializing -> Idle.
ManagerReady ==
    /\ get_cluster_status = "Initializing"
    /\ cluster_status' = i32_from_ClusterStatus("Idle")
    /\ participants' = {}
    /\ last_request' = Request("ready", 0, 0, TRUE)
    /\ UNCHANGED <<servers, hash_ring, new_hash_ring>>
    /\ UNCHANGED not_manager

\* Start of a rebalance towards ring `target`: every server of the old or the
\* new ring takes part and begins a fresh lifecycle at Initializing.
StartRebalance(kind, target) ==
    /\ cluster_status' = i32_from_ClusterStatus("NodesStarting")
    /\ new_hash_ring' = target
    /\ participants' = hash_ring \cup target
    /\ servers' = [s \in Servers |->
                     IF s \in hash_ring \cup target THEN "Initializing"
                     ELSE servers[s]]
    /\ last_request' = Request(kind, 0, 0, TRUE)
    /\ UNCHANGED hash_ring

\* A membership request refused because the cluster is not Idle.
RejectMembership(kind) ==
    /\ last_request' = Request(kind, 0, 0, FALSE)
    /\ UNCHANGED <<cluster_status, servers, hash_ring, new_hash_ring, participants>>

\* AddNodes request for the servers in N (none of them in the ring yet).
AddNodes(N) ==
    /\ IF get_cluster_status = "Idle"
       THEN StartRebalance("add", hash_ring \cup N)
       ELSE RejectMembership("add")
    /\ UNCHANGED not_manager

\* RemoveNodes request for the servers in N (ring members, not all of them).
RemoveNodes(N) ==
    /\ IF get_cluster_status = "Idle"
       THEN StartRebalance("remove", hash_ring \ N)
       ELSE RejectMembership("remove")
    /\ UNCHANGED not_manager

\* UpdateServerStatus request of server s carrying status code `code`.
\* An undeclared code is a decode error (local to the caller); a declared
\* status that is not the next one is a state-transition error, which is
\* cluster-fatal while a rebalance is in progress.
UpdateServerStatus(s, code) ==
    /\ LET r == ServerStatus_try_from(code) IN
       IF r.tag = "Err"
       THEN /\ last_request' = Request("update", s, code, FALSE)
            /\ UNCHANGED <<cluster_status, servers, hash_ring, new_hash_ring,
                           participants>>
       ELSE IF IsNextServerStatus(servers[s], r.val)
       THEN /\ servers' = [servers EXCEPT ![s] = r.val]
            /\ last_request' = Request("update", s, code, TRUE)
            /\ UNCHANGED <<cluster_status, hash_ring, new_hash_ring, participants>>
       ELSE /\ cluster_status' = IF InProgress
                                 THEN i32_from_ClusterStatus("StatusError")
                                 ELSE cluster_status
            /\ last_request' = Request("update", s, code, FALSE)
            /\ UNCHANGED <<servers, hash_ring, new_hash_ring, participants>>
    /\ UNCHANGED not_manager

\* The orchestration step: move the cluster to the next status once every
\* participant has reached the status that corresponds to it; the move back
\* to Idle installs the new ring.
AdvanceCluster ==
    /\ get_cluster_status \in {"NodesStarting", "SyncNewHashRing", "PreTransfer",
                               "Transferring", "PreFinish", "Finishing"}
    /\ LET next == NextClusterStatus(get_cluster_status) IN
         /\ \A s \in participants : HasReached(s, RequiredServerStatus(next))
         /\ cluster_status' = i32_from_ClusterStatus(next)
         /\ IF next = "Idle"
            THEN /\ hash_ring' = new_hash_ring
                 /\ participants' = {}
            ELSE UNCHANGED <<hash_ring, participants>>
    /\ last_request' = Request("advance", 0, 0, TRUE)
    /\ UNCHANGED <<servers, new_hash_ring>>
    /\ UNCHANGED not_manager

\* A failure of server s seen by the manager (kind "failure": the server
\* reports it; kind "timeout": its heartbeat deadline passed).
ServerFailed(kind, s) ==
    /\ cluster_status' = IF InProgress /\ s \in participants
                         THEN i32_from_ClusterStatus("StatusError")
                         ELSE cluster_status
    /\ last_request' = Request(kind, s, 0, TRUE)
    /\ UNCHANGED <<servers, hash_ring, new_hash_ring, participants>>
    /\ UNCHANGED not_manager

ReportFailure(s) == ServerFailed("failure", s)

HeartbeatTimeout(s) == ServerFailed("timeout", s)

\* The administrative reset out of StatusError: every server status is reset
\* and the ring that was being moved to is dropped.
AdminReset ==
    /\ get_cluster_status = "StatusError"
    /\ cluster_status' = i32_from_ClusterStatus("Idle")
    /\ servers' = [s \in Servers |-> "Initializing"]
    /\ new_hash_ring' = hash_ring
    /\ participants' = {}
    /\ last_request' = Request("reset", 0, 0, TRUE)
    /\ UNCHANGED hash_ring
    /\ UNCHANGED not_manager

(***************************************************************************)
(* Directory entry set: SubDirectory { sub_dir: BTreeMap<String, String> } *)
(***************************************************************************)

\* Number of ordinary (non-reserved) names callers may pass.
MaxNames == 2

NamePool == <<"a", "b", "c", "d", "e">>

\* The names passed to add_* / delete_*: the reserved ones and ordinary ones.
Names == {".", ".."} \cup {NamePool[i] : i \in 1..MaxNames}

\* BTreeMap::insert: the entry is added, or its value overwritten.
insert(m, k, v) == [n \in DOMAIN m \cup {k} |-> IF n = k THEN v ELSE m[n]]

\* BTreeMap::remove: the entry is dropped if present, else nothing changes.
remove(m, k) == [n \in DOMAIN m \ {k} |-> m[n]]

\* A constructor that forgets the parent entry.
SubDirectory_new_no_parent == [n \in {"."} |-> "d"]

\* SubDirectory::new (and Default::default, which calls it)
SubDirectory_new == [n \in {".", ".."} |-> "d"]

\* SubDirectory::add_dir
add_dir(m, dir) == insert(m, dir, "d")

\* SubDirectory::add_file
add_file(m, file) == insert(m, file, "f")

\* SubDirectory::delete_dir
delete_dir(m, dir) == remove(m, dir)

\* A delete_file that only drops entries tagged as files.
delete_file_only_files(m, file) ==
    IF file \in DOMAIN m /\ m[file] = "f" THEN remove(m, file) ELSE m

\* SubDirectory::delete_file
delete_file(m, file) == remove(m, file)

DirCall(op, name) == [op |-> op, name |-> name, before |-> sub_dir]

\* dir_calls keeps the last two calls, oldest first.
Remember(call) ==
    dir_calls' = IF Len(dir_calls) < 2 THEN Append(dir_calls, call)
                 ELSE <<dir_calls[2], call>>

\* A fresh SubDirectory replaces the current one.
DirNew ==
    /\ sub_dir' = SubDirectory_new
    /\ Remember(DirCall("new", "-"))
    /\ UNCHANGED not_dir

DirAddDir ==
    /\ \E n \in Names :
           /\ sub_dir' = add_dir(sub_dir, n)
           /\ Remember(DirCall("add_dir", n))
    /\ UNCHANGED not_dir

DirAddFile ==
    /\ \E n \in Names :
           /\ sub_dir' = add_file(sub_dir, n)
           /\ Remember(DirCall("add_file", n))
    /\ UNCHANGED not_dir

DirDeleteDir ==
    /\ \E n \in Names :
           /\ sub_dir' = delete_dir(sub_dir, n)
           /\ Remember(DirCall("delete_dir", n))
    /\ UNCHANGED not_dir

DirDeleteFile ==
    /\ \E n \in Names :
           /\ sub_dir' = delete_file(sub_dir, n)
           /\ Remember(DirCall("delete_file", n))
    /\ UNCHANGED not_dir

(***************************************************************************)
(* Raw attribute-record codec: bytes_as_file_attr reinterprets the buffer  *)
(* as a FileAttr without looking at its length.                            *)
(***************************************************************************)

\* size_of::<FileAttr>(), scaled down to a few bytes.
FileAttrSize == 3

\* Largest byte value used in buffers and in memory behind them.
MaxByte == 2

Bytes == 0..MaxByte

\* All byte sequences of length n.
BytesOfLen(n) == [1..n -> Bytes]

\* Buffers handed to the decoder: every length from empty to one byte too long.
AttrBuffers == UNION {BytesOfLen(n) : n \in 0..(FileAttrSize + 1)}

AttrOk(rec) == [tag |-> "Ok", bytes |-> rec, expected |-> 0, actual |-> 0]
AttrFault == [tag |-> "Fault", bytes |-> <<>>, expected |-> 0, actual |-> 0]
AttrNone == [tag |-> "None", bytes |-> <<>>, expected |-> 0, actual |-> 0]

\* bytes_as_file_attr / bytes_as_file_attr_mut: the outcomes of `&*ptr` read
\* as a FileAttr.  The record is the FileAttrSize bytes starting at the
\* buffer's first byte: a longer buffer loses its tail; behind a shorter one
\* the read runs past the end (undefined behaviour), which yields whatever
\* memory holds there or faults.
bytes_as_file_attr(bytes) ==
    IF Len(bytes) >= FileAttrSize
    THEN {AttrOk(SubSeq(bytes, 1, FileAttrSize))}
    ELSE {AttrOk(bytes \o tail) : tail \in BytesOfLen(FileAttrSize - Len(bytes))}
         \cup {AttrFault}

\* A buffer arrives from the transport.
AttrReceive ==
    /\ \E b \in AttrBuffers : attr_buf' = b
    /\ attr_out' = AttrNone
    /\ UNCHANGED not_attr

\* The receiver reinterprets the buffer as an attribute record.
AttrDecode ==
    /\ attr_out = AttrNone
    /\ \E o \in bytes_as_file_attr(attr_buf) : attr_out' = o
    /\ UNCHANGED attr_buf
    /\ UNCHANGED not_attr

(***************************************************************************)
(* Attribute records: FileTypeSimple, FileAttrSimple, the conversion to    *)
(* fuser::FileAttr and the stat / statx projections.                       *)
(*                                                                         *)
(* A SystemTime is modelled by its nanoseconds since UNIX_EPOCH.  Records  *)
(* are serialized by serde as a duration since the epoch and new() reads   *)
(* the running clock, so no timestamp lies before the epoch.               *)
(***************************************************************************)

FileTypeSimple ==
    {"RegularFile", "NamedPipe", "CharDevice", "BlockDevice", "Directory",
     "Symlink", "Socket"}

\* impl TryFrom<u32> for FileTypeSimple
FileTypeSimple_try_from(value) ==
    CASE value = 0 -> Ok("RegularFile")
      [] value = 1 -> Ok("NamedPipe")
      [] value = 2 -> Ok("CharDevice")
      [] value = 3 -> Ok("BlockDevice")
      [] value = 4 -> Ok("Directory")
      [] value = 5 -> Ok("Symlink")
      [] value = 6 -> Ok("Socket")
      [] OTHER -> Err("Unkown value")

\* impl From<FileTypeSimple> for u32
u32_from_FileTypeSimple(value) ==
    CASE value = "RegularFile" -> 0
      [] value = "NamedPipe" -> 1
      [] value = "CharDevice" -> 2
      [] value = "BlockDevice" -> 3
      [] value = "Directory" -> 4
      [] value = "Symlink" -> 5
      [] value = "Socket" -> 6

\* The fields of FileAttrSimple, in declaration order.
FileAttrSimpleFields ==
    <<"size", "blocks", "atime", "mtime", "ctime", "crtime", "kind", "perm",
      "nlink", "uid", "gid", "rdev", "flags", "blksize">>

\* `let kind = match r#type` of FileAttrSimple::new
new_kind(type) ==
    CASE type = "NamedPipe" -> 0
      [] type = "CharDevice" -> 1
      [] type = "BlockDevice" -> 2
      [] type = "Directory" -> 3
      [] type = "RegularFile" -> 4
      [] type = "Symlink" -> 5
      [] type = "Socket" -> 6

\* `let size = match r#type` of FileAttrSimple::new
new_size(type) == IF type = "Directory" THEN 4096 ELSE 0

\* A constructor that gives every type the directory size.
FileAttrSimple_new_all_4096(type, now) ==
    [size |-> 4096, blocks |-> 0,
     atime |-> now[1], mtime |-> now[2], ctime |-> now[3], crtime |-> now[4],
     kind |-> new_kind(type), perm |-> 0, nlink |-> 0, uid |-> 0, gid |-> 0,
     rdev |-> 0, flags |-> 0, blksize |-> 0]

\* FileAttrSimple::new; now[1..4] are what the four SystemTime::now() calls
\* return, in order.
FileAttrSimple_new(type, now) ==
    [size |-> new_size(type), blocks |-> 0,
     atime |-> now[1], mtime |-> now[2], ctime |-> now[3], crtime |-> now[4],
     kind |-> new_kind(type), perm |-> 0, nlink |-> 0, uid |-> 0, gid |-> 0,
     rdev |-> 0, flags |-> 0, blksize |-> 0]

\* The memory of a FileAttrSimple, one cell per field: the fields with the
\* padding the alignment of their types puts behind each SystemTime and
\* behind perm.  The same layout holds for every value of the type.
Layout ==
    <<"size", "blocks", "atime", "pad", "mtime", "pad", "ctime", "pad",
      "crtime", "pad", "kind", "perm", "pad", "nlink", "uid", "gid", "rdev",
      "flags", "blksize">>

\* The cell a field lives in.
cell_of(field) == CHOOSE i \in 1..Len(Layout) : Layout[i] = field

\* size_of::<FileAttrSimple>(), in cells.
FileAttrSimple_size == Len(Layout)

\* The memory of attr with padding value p in every padding cell.
Memory(attr, p) ==
    [i \in 1..FileAttrSimple_size |->
        IF Layout[i] = "pad" THEN p ELSE attr[Layout[i]]]

\* An as_bytes whose length comes from a smaller type: the last cell is cut.
as_bytes_short(attr) ==
    {SubSeq(Memory(attr, p), 1, FileAttrSimple_size - 1) : p \in Bytes}

\* FileAttrSimple::as_bytes: the record's own memory as a byte slice.  The
\* padding is uninitialized, so its cells hold any value.
as_bytes(attr) == {Memory(attr, p) : p \in Bytes}

\* FileAttrSimple::as_mut_bytes, written with `bytes`: the cells of attr's
\* memory that `bytes` covers are overwritten, and attr is read from it again.
as_mut_bytes(attr, bytes) ==
    [f \in {FileAttrSimpleFields[i] : i \in 1..Len(FileAttrSimpleFields)} |->
        IF cell_of(f) <= Len(bytes) THEN bytes[cell_of(f)] ELSE attr[f]]

\* `let kind = match attr.kind` of From<FileAttrSimple> for fuser::FileAttr
FileType_of_kind(kind) ==
    CASE kind = 0 -> "NamedPipe"
      [] kind = 1 -> "CharDevice"
      [] kind = 2 -> "BlockDevice"
      [] kind = 3 -> "Directory"
      [] kind = 4 -> "RegularFile"
      [] kind = 5 -> "Symlink"
      [] kind = 6 -> "Socket"
      [] OTHER -> "RegularFile"

\* impl From<FileAttrSimple> for fuser::FileAttr: infallible
FileAttr_from(attr) ==
    [ino |-> 0, size |-> attr.size, blocks |-> attr.blocks,
     atime |-> attr.atime, mtime |-> attr.mtime, ctime |-> attr.ctime,
     crtime |-> attr.crtime, kind |-> FileType_of_kind(attr.kind),
     perm |-> attr.perm, nlink |-> attr.nlink, uid |-> attr.uid,
     gid |-> attr.gid, rdev |-> attr.rdev, flags |-> attr.flags,
     blksize |-> attr.blksize]

\* libc file type bits of st_mode.
S_IFIFO == 4096
S_IFCHR == 8192
S_IFDIR == 16384
S_IFBLK == 24576
S_IFREG == 32768
S_IFLNK == 40960
S_IFSOCK == 49152

\* `let kind = match attr.kind` of tostat and tostatx
S_IF_of(kind) ==
    CASE kind = "NamedPipe" -> S_IFIFO
      [] kind = "CharDevice" -> S_IFCHR
      [] kind = "BlockDevice" -> S_IFBLK
      [] kind = "Directory" -> S_IFDIR
      [] kind = "RegularFile" -> S_IFREG
      [] kind = "Symlink" -> S_IFLNK
      [] kind = "Socket" -> S_IFSOCK

\* The `|` of two unsigned integers.
RECURSIVE BitOr(_, _)
BitOr(a, b) ==
    IF a = 0 THEN b
    ELSE IF b = 0 THEN a
    ELSE (IF a % 2 = 1 \/ b % 2 = 1 THEN 1 ELSE 0)
         + 2 * BitOr(a \div 2, b \div 2)

\* Nanoseconds in a second (Duration::as_secs / as_nanos).
NanosPerSec == 1000000000

\* t.duration_since(UNIX_EPOCH).unwrap().as_secs()
as_secs(t) == t \div NanosPerSec

\* t.duration_since(UNIX_EPOCH).unwrap().as_nanos(): the whole duration
as_nanos(t) == t

\* tostat: the fields of the `stat` in statbuf after the call.
tostat(attr, statbuf) ==
    [statbuf EXCEPT
        !.st_dev = 0,
        !.st_ino = 0,
        !.st_mode = BitOr(S_IF_of(attr.kind), attr.perm),
        !.st_nlink = attr.nlink,
        !.st_uid = attr.uid,
        !.st_gid = attr.gid,
        !.st_rdev = attr.rdev,
        !.st_size = attr.size,
        !.st_blksize = attr.blksize,
        !.st_blocks = attr.blocks,
        !.st_atime = as_secs(attr.atime),
        !.st_atime_nsec = as_nanos(attr.atime),
        !.st_mtime = as_secs(attr.mtime),
        !.st_mtime_nsec = as_nanos(attr.mtime),
        !.st_ctime = as_secs(attr.ctime),
        !.st_ctime_nsec = as_nanos(attr.ctime)]

statx_timestamp(sec, nsec) == [tv_sec |-> sec, tv_nsec |-> nsec]

\* tostatx: the fields of the `statx` in statxbuf after the call; the device
\* fields and stx_attributes are not assigned.
tostatx(attr, statxbuf) ==
    [statxbuf EXCEPT
        !.stx_mask = 0,
        !.stx_ino = 0,
        !.stx_mode = BitOr(S_IF_of(attr.kind), attr.perm),
        !.stx_nlink = attr.nlink,
        !.stx_uid = attr.uid,
        !.stx_gid = attr.gid,
        !.stx_size = attr.size,
        !.stx_blksize = attr.blksize,
        !.stx_blocks = attr.blocks,
        !.stx_atime = statx_timestamp(as_secs(attr.atime), 0),
        !.stx_btime = statx_timestamp(0, 0),
        !.stx_mtime = statx_timestamp(as_secs(attr.mtime), 0),
        !.stx_ctime = statx_timestamp(as_secs(attr.ctime), 0)]

\* A `stat` whose every field holds j (what the buffer held before).
StatHolding(j) ==
    [st_dev |-> j, st_ino |-> j, st_mode |-> j, st_nlink |-> j, st_uid |-> j,
     st_gid |-> j, st_rdev |-> j, st_size |-> j, st_blksize |-> j,
     st_blocks |-> j, st_atime |-> j, st_atime_nsec |-> j, st_mtime |-> j,
     st_mtime_nsec |-> j, st_ctime |-> j, st_ctime_nsec |-> j]

\* A `statx` whose every field holds j.
StatxHolding(j) ==
    [stx_mask |-> j, stx_attributes |-> j, stx_ino |-> j, stx_mode |-> j,
     stx_nlink |-> j, stx_uid |-> j, stx_gid |-> j, stx_size |-> j,
     stx_blksize |-> j, stx_blocks |-> j,
     stx_atime |-> statx_timestamp(j, j), stx_btime |-> statx_timestamp(j, j),
     stx_mtime |-> statx_timestamp(j, j), stx_ctime |-> statx_timestamp(j, j),
     stx_dev_major |-> j, stx_dev_minor |-> j,
     stx_rdev_major |-> j, stx_rdev_minor |-> j]

\* One more than the largest declared kind code: the kind codes tried.
MaxKindInput == 7

\* Largest multiplier of the sample values of the integer fields.
MaxField == 1

\* Timestamps tried, in nanoseconds since the epoch.
TimeVals == {0, 999999999, 1000000000, 1500000000}

\* What SystemTime::now() may return.
NowVals == TimeVals \ {0}

\* What four SystemTime::now() calls in a row may return.
NowSeqs ==
    {n \in [1..4 -> NowVals] : \A i \in 1..3 : n[i] <= n[i + 1]}

\* Permission bits tried: none, 0o644, 0o7777.
PermVals == {0, 420, 4095}

\* A record whose fields all differ from one another when v > 0.
SampleRecord(k, p, v, t) ==
    [size |-> 4096 * v, blocks |-> 8 * v,
     atime |-> t, mtime |-> t + 1, ctime |-> t + 2, crtime |-> t + 3,
     kind |-> k, perm |-> p, nlink |-> v, uid |-> 1000 * v, gid |-> 100 * v,
     rdev |-> 3 * v, flags |-> 5 * v, blksize |-> 512 * v]

\* The records a peer may send (deserialized field by field by serde).
Records ==
    {SampleRecord(k, p, v, t) :
        k \in 0..MaxKindInput, p \in PermVals, v \in 0..MaxField, t \in TimeVals}

\* Values a stat / statx buffer may hold before the call.
JunkVals == {0, 7}

NoRecord == SampleRecord(0, 0, 0, 0)
NoFileAttr == [tag |-> "None", val |-> FileAttr_from(NoRecord)]
SimpleOp(op, type, dec) == [op |-> op, type |-> type, decoded |-> dec]

\* Results of earlier calls go out of scope.
Forget(outs) ==
    /\ "bytes" \in outs => simple_bytes' = <<>>
    /\ "back" \in outs => simple_back' = NoRecord
    /\ "file_attr" \in outs => file_attr' = NoFileAttr
    /\ "stat" \in outs => stat_buf' = StatHolding(0)
    /\ "statx" \in outs => statx_buf' = StatxHolding(0)

\* FileAttrSimple::new(type)
RecNew ==
    /\ \E type \in FileTypeSimple, now \in NowSeqs :
          /\ attr_simple' = FileAttrSimple_new(type, now)
          /\ simple_op' = SimpleOp("new", type, NoResult)
    /\ Forget({"bytes", "back", "file_attr", "stat", "statx"})
    /\ UNCHANGED not_record

\* A record arrives from a peer (e.g. as the CheckFile payload).
RecReceive ==
    /\ \E r \in Records :
          /\ attr_simple' = r
          /\ simple_op' = SimpleOp("receive", "-", NoResult)
    /\ Forget({"bytes", "back", "file_attr", "stat", "statx"})
    /\ UNCHANGED not_record

\* attr_simple.as_bytes()
RecAsBytes ==
    /\ simple_op.op # "none"
    /\ \E b \in as_bytes(attr_simple) : simple_bytes' = b
    /\ simple_op' = SimpleOp("as_bytes", simple_op.type, NoResult)
    /\ Forget({"back", "file_attr", "stat", "statx"})
    /\ UNCHANGED attr_simple
    /\ UNCHANGED not_record

\* The bytes are written into a fresh FileAttrSimple::default() through
\* its as_mut_bytes().
RecAsMutBytes ==
    /\ simple_op.op = "as_bytes"
    /\ \E now \in NowSeqs :
          simple_back' =
              as_mut_bytes(FileAttrSimple_new("RegularFile", now), simple_bytes)
    /\ simple_op' = SimpleOp("as_mut_bytes", simple_op.type, NoResult)
    /\ UNCHANGED <<attr_simple, simple_bytes, file_attr, stat_buf, statx_buf>>
    /\ UNCHANGED not_record

\* FileTypeSimple::try_from(attr_simple.kind)
RecKindTryFrom ==
    /\ simple_op.op # "none"
    /\ simple_op' = SimpleOp("try_from", simple_op.type,
                             FileTypeSimple_try_from(attr_simple.kind))
    /\ Forget({"bytes", "back", "file_attr", "stat", "statx"})
    /\ UNCHANGED attr_simple
    /\ UNCHANGED not_record

\* FileAttr::from(attr_simple)
RecInto ==
    /\ simple_op.op # "none"
    /\ file_attr' = [tag |-> "Ok", val |-> FileAttr_from(attr_simple)]
    /\ simple_op' = SimpleOp("into", simple_op.type, NoResult)
    /\ Forget({"bytes", "back", "stat", "statx"})
    /\ UNCHANGED attr_simple
    /\ UNCHANGED not_record

\* tostat(&file_attr, statbuf) on a buffer that held j in every field
RecToStat ==
    /\ simple_op.op = "into"
    /\ \E j \in JunkVals : stat_buf' = tostat(file_attr.val, StatHolding(j))
    /\ simple_op' = SimpleOp("tostat", simple_op.type, NoResult)
    /\ UNCHANGED <<attr_simple, simple_bytes, simple_back, file_attr, statx_buf>>
    /\ UNCHANGED not_record

\* tostatx(&file_attr, statxbuf) on a buffer that held j in every field
RecToStatx ==
    /\ simple_op.op = "into"
    /\ \E j \in JunkVals : statx_buf' = tostatx(file_attr.val, StatxHolding(j))
    /\ simple_op' = SimpleOp("tostatx", simple_op.type, NoResult)
    /\ UNCHANGED <<attr_simple, simple_bytes, simple_back, file_attr, stat_buf>>
    /\ UNCHANGED not_record

(***************************************************************************)
(* Specifications                                                          *)
(***************************************************************************)

RegistryInit == wire = NoWire /\ decoded = NoResult

\* After Manager construction: starting up with a one-server ring.
ManagerInit ==
    /\ cluster_status = i32_from_ClusterStatus("Initializing")
    /\ servers = [s \in Servers |-> "Initializing"]
    /\ hash_ring = {1}
    /\ new_hash_ring = {1}
    /\ participants = {1}
    /\ last_request = Request("none", 0, 0, TRUE)

DirInit == sub_dir = SubDirectory_new /\ dir_calls = <<>>

AttrInit == attr_buf = <<>> /\ attr_out = AttrNone

\* No record made or received yet.
RecordInit ==
    /\ attr_simple = NoRecord
    /\ simple_op = SimpleOp("none", "-", NoResult)
    /\ simple_bytes = <<>>
    /\ simple_back = NoRecord
    /\ file_attr = NoFileAttr
    /\ stat_buf = StatHolding(0)
    /\ statx_buf = StatxHolding(0)

Init == RegistryInit /\ ManagerInit /\ DirInit /\ AttrInit /\ RecordInit

RegistryNext ==
    \/ SendOperation
    \/ SendManagerOperation
    \/ InjectOpcode
    \/ ReceiveOpcode

ManagerNext ==
    \/ ManagerReady
    \/ \E N \in (SUBSET (Servers \ hash_ring)) \ {{}} : AddNodes(N)
    \/ \E N \in (SUBSET hash_ring) \ {{}, hash_ring} : RemoveNodes(N)
    \/ \E s \in Servers, c \in StatusCodeInputs : UpdateServerStatus(s, c)
    \/ AdvanceCluster
    \/ \E s \in Servers : ReportFailure(s)
    \/ \E s \in Servers : HeartbeatTimeout(s)
    \/ AdminReset

DirNext ==
    \/ DirNew
    \/ DirAddDir
    \/ DirAddFile
    \/ DirDeleteDir
    \/ DirDeleteFile

AttrNext ==
    \/ AttrReceive
    \/ AttrDecode

SpecRegistry == Init /\ [][RegistryNext]_vars

SpecManager == Init /\ [][ManagerNext]_vars

SpecDir == Init /\ [][DirNext]_vars

SpecAttr == Init /\ [][AttrNext]_vars

RecordNext ==
    \/ RecNew
    \/ RecReceive
    \/ RecAsBytes
    \/ RecAsMutBytes
    \/ RecKindTryFrom
    \/ RecInto
    \/ RecToStat
    \/ RecToStatx

SpecRecord == Init /\ [][RecordNext]_vars

(***************************************************************************)
(* Properties                                                              *)
(***************************************************************************)

\* The declared opcode integers of each registry type.
DeclaredCodes(ty) == IF ty = "OperationType" THEN 0..24 ELSE 101..109

\* C1: every declared OperationType and ManagerOperationType encodes to a u32
\* (encoding has no failure case) and try_from of that u32 gives back the
\* same kind.
OpcodeRoundTrip ==
    /\ wire.by = "encode" => wire.code \in DeclaredCodes(wire.ty)
    /\ (wire.by = "encode" /\ decoded # NoResult) => decoded = Ok(wire.kind)

OpcodeRoundTripWitness ==
    /\ wire.by = "encode"
    /\ wire.kind = "CreateFileNoParent"
    /\ decoded = Ok("CreateFileNoParent")

\* C2: decoding an integer outside the declared set returns an
\* "unrecognized opcode" error value to the caller: it is neither accepted as
\* some kind nor a panic.
UnknownOpcodeIsError ==
    (decoded # NoResult /\ wire.code \notin DeclaredCodes(wire.ty))
        => decoded.tag = "Err"

\* The lifecycle of a server, in order.
ServerStatusOrder ==
    <<"Initializing", "PreTransfer", "Transferring", "PreFinish", "Finishing",
      "Finished">>

\* Position of a server status in the lifecycle.
Rank(st) == CHOOSE i \in 1..Len(ServerStatusOrder) : ServerStatusOrder[i] = st

\* C3: a status update is accepted only if it moves the server exactly one
\* step forward along the lifecycle; any other requested transition is
\* rejected and leaves the server's status unchanged, so no update ever moves
\* a server backwards.
ServerStatusTransitions ==
    [][last_request'.kind = "update" =>
         LET s == last_request'.server
             r == ServerStatus_try_from(last_request'.code)
             one_step == r.tag = "Ok" /\ Rank(r.val) = Rank(servers[s]) + 1
         IN /\ last_request'.accepted <=> one_step
            /\ servers'[s] = IF one_step THEN r.val ELSE servers[s]
            /\ \A t \in Servers \ {s} : servers'[t] = servers[t]
            /\ Rank(servers'[s]) >= Rank(servers[s])]_vars

\* A skipped step (PreTransfer -> PreFinish) was refused.
ServerStatusTransitionsWitness ==
    /\ last_request.kind = "update"
    /\ last_request.code = 204
    /\ ~last_request.accepted
    /\ servers[last_request.server] = "PreTransfer"

\* ClusterStatus::Idle and ClusterStatus::StatusError as stored.
IdleCode == 301
StatusErrorCode == 308

\* C4: an add-nodes or remove-nodes request is accepted only when the cluster
\* status is Idle, where no ring transition is in progress; in every other
\* status it is rejected and changes neither the cluster status nor the rings.
OneRebalanceAtATime ==
    [][last_request'.kind \in {"add", "remove"} =>
         /\ last_request'.accepted =>
               /\ cluster_status = IdleCode
               /\ participants = {}
               /\ new_hash_ring = hash_ring
         /\ cluster_status # IdleCode =>
               /\ ~last_request'.accepted
               /\ UNCHANGED <<cluster_status, hash_ring, new_hash_ring>>]_vars

\* An add request refused in the middle of a transfer.
OneRebalanceAtATimeWitness ==
    /\ last_request.kind = "add"
    /\ ~last_request.accepted
    /\ cluster_status = 305
    /\ new_hash_ring # hash_ring

\* The happy path of the cluster status, in order, as stored codes.
HappyPath == <<301, 302, 303, 304, 305, 306, 307, 301>>

\* The lifecycle position every participant must hold while the cluster
\* status has code c (for Idle: before the cluster may return to it).
RequiredRank(c) ==
    CASE c = 304 -> Rank("PreTransfer")
      [] c = 305 -> Rank("Transferring")
      [] c = 306 -> Rank("PreFinish")
      [] c = 307 -> Rank("Finishing")
      [] c = 301 -> Rank("Finished")
      [] OTHER -> Rank("Initializing")

\* The cluster status is not ahead of any participating server.
NeverAhead ==
    cluster_status \in 302..307 =>
        \A p \in participants : Rank(servers[p]) >= RequiredRank(cluster_status)

\* A change of the cluster status during a rebalance, other than into
\* StatusError, goes to the next status of the happy path, and only when
\* every participant has reached the corresponding status.
BarrierStep ==
    (cluster_status \in 302..307 /\ cluster_status' \notin {cluster_status, StatusErrorCode})
        => /\ \E i \in 2..7 : HappyPath[i] = cluster_status
                              /\ HappyPath[i + 1] = cluster_status'
           /\ \A p \in participants :
                 Rank(servers[p]) >= RequiredRank(cluster_status')

\* C5: under any interleaving of status updates the cluster status moves to
\* the next state of Idle -> NodesStarting -> SyncNewHashRing -> PreTransfer ->
\* Transferring -> PreFinish -> Finishing -> Idle only when every participating
\* server has reached the corresponding status; it is never ahead of a
\* participating server and returns to Idle only from Finishing.
BarrierGating == []NeverAhead /\ [][BarrierStep]_vars

\* A full add-node cycle completed: back to Idle with the new ring installed.
BarrierGatingWitness ==
    /\ last_request.kind = "advance"
    /\ cluster_status = IdleCode
    /\ hash_ring = Servers
    /\ \A s \in Servers : servers[s] = "Finished"

\* C6: a failure report or a missed heartbeat deadline of a participating
\* server during a rebalance puts the cluster into StatusError; StatusError is
\* left only by the administrative reset, and add/remove requests are
\* rejected while in it.
StatusErrorPath ==
    [][/\ (/\ last_request'.kind \in {"failure", "timeout"}
           /\ last_request'.server \in participants
           /\ cluster_status \notin {IdleCode, StatusErrorCode})
          => cluster_status' = StatusErrorCode
       /\ (cluster_status = StatusErrorCode /\ cluster_status' # StatusErrorCode)
          => (last_request'.kind = "reset" /\ cluster_status' = IdleCode)
       /\ (cluster_status = StatusErrorCode /\ last_request'.kind \in {"add", "remove"})
          => (~last_request'.accepted
              /\ UNCHANGED <<cluster_status, hash_ring, new_hash_ring>>)]_vars

\* A heartbeat timeout of a participant has put the cluster into StatusError
\* with the ring transition unfinished.
StatusErrorPathWitness ==
    /\ last_request.kind = "timeout"
    /\ last_request.server \in participants
    /\ cluster_status = StatusErrorCode
    /\ new_hash_ring # hash_ring

\* C7: "." and ".." are both present in every entry set reachable from
\* SubDirectory::new() by add_dir, add_file, delete_dir and delete_file
\* calls with arbitrary names.
DotEntriesAlwaysPresent ==
    "." \in DOMAIN sub_dir /\ ".." \in DOMAIN sub_dir

\* The last two calls were an add of a name and then a delete of that name.
AddThenDelete ==
    /\ Len(dir_calls) = 2
    /\ dir_calls[1].op \in {"add_dir", "add_file"}
    /\ dir_calls[2].op \in {"delete_dir", "delete_file"}
    /\ dir_calls[1].name = dir_calls[2].name

\* C8 as stated: adding a name and then removing it yields the set there was
\* before the add, whatever the name.
AddThenDeleteRestoresAlways ==
    AddThenDelete => sub_dir = dir_calls[1].before

\* C8: adding a name that the set does not hold and then removing it yields
\* the set there was before the add, names and type tags included.
AddThenDeleteRestoresAbsent ==
    (AddThenDelete /\ dir_calls[1].name \notin DOMAIN dir_calls[1].before)
        => sub_dir = dir_calls[1].before

\* add_dir("a") then delete_file("a") on a set holding "b" but not "a".
AddThenDeleteRestoresAbsentWitness ==
    /\ AddThenDelete
    /\ dir_calls[1].op = "add_dir"
    /\ dir_calls[2].op = "delete_file"
    /\ dir_calls[1].name = "a"
    /\ "a" \notin DOMAIN dir_calls[1].before
    /\ "b" \in DOMAIN dir_calls[1].before
    /\ sub_dir = dir_calls[1].before

\* The entry set is the one just made by SubDirectory::new().
JustCreated ==
    Len(dir_calls) = 0 \/ dir_calls[Len(dir_calls)].op = "new"

\* C9: SubDirectory::new() returns an entry set whose names are exactly "."
\* and "..", both tagged "d".
NewIsDotAndDotDot ==
    JustCreated =>
        /\ DOMAIN sub_dir = {".", ".."}
        /\ sub_dir["."] = "d"
        /\ sub_dir[".."] = "d"

\* new() called while the previous set held other entries and no "..".
NewIsDotAndDotDotWitness ==
    /\ Len(dir_calls) > 0
    /\ dir_calls[Len(dir_calls)].op = "new"
    /\ "a" \in DOMAIN dir_calls[Len(dir_calls)].before
    /\ ".." \notin DOMAIN dir_calls[Len(dir_calls)].before
    /\ DOMAIN sub_dir = {".", ".."}

\* C10: decoding an attribute record from a buffer whose length differs from
\* the record's size fails with a length-mismatch error carrying the expected
\* and the actual size; no record comes out of a shorter or longer buffer.
WrongLengthIsError ==
    (attr_out.tag # "None" /\ Len(attr_buf) # FileAttrSize)
        => /\ attr_out.tag = "Err"
           /\ attr_out.expected = FileAttrSize
           /\ attr_out.actual = Len(attr_buf)

ModeOf(attr) == BitOr(S_IF_of(attr.kind), attr.perm)

\* C12: tostat and tostatx of any attribute record write device id 0 and
\* inode number 0 whatever the buffer held before, and write mode equal to
\* the bitwise OR of the S_IF* constant of the record's kind and its
\* permission bits.
ProjectionsWriteDevInoMode ==
    /\ simple_op.op = "tostat" =>
          /\ stat_buf.st_dev = 0
          /\ stat_buf.st_ino = 0
          /\ stat_buf.st_mode = ModeOf(file_attr.val)
    /\ simple_op.op = "tostatx" =>
          /\ statx_buf.stx_dev_major = 0
          /\ statx_buf.stx_dev_minor = 0
          /\ statx_buf.stx_ino = 0
          /\ statx_buf.stx_mode = ModeOf(file_attr.val)

\* The seconds and nanoseconds fields hold timestamp t (nanoseconds since
\* the epoch): sec * 10^9 + nsec = t with nsec in 0..999999999.
SplitOf(sec, nsec, t) ==
    /\ sec = t \div NanosPerSec
    /\ nsec = t - sec * NanosPerSec
    /\ nsec \in 0..(NanosPerSec - 1)

\* C13: in the stat / statx projections each timestamp of the record (access,
\* modify, change, creation) is split into its POSIX fields: the seconds
\* field holds the whole seconds since the epoch and the nanoseconds field
\* the sub-second remainder in 0..999999999.  (`stat` has no creation time.)
TimestampsSplit ==
    /\ simple_op.op = "tostat" =>
          /\ SplitOf(stat_buf.st_atime, stat_buf.st_atime_nsec,
                     file_attr.val.atime)
          /\ SplitOf(stat_buf.st_mtime, stat_buf.st_mtime_nsec,
                     file_attr.val.mtime)
          /\ SplitOf(stat_buf.st_ctime, stat_buf.st_ctime_nsec,
                     file_attr.val.ctime)
    /\ simple_op.op = "tostatx" =>
          /\ SplitOf(statx_buf.stx_atime.tv_sec, statx_buf.stx_atime.tv_nsec,
                     file_attr.val.atime)
          /\ SplitOf(statx_buf.stx_mtime.tv_sec, statx_buf.stx_mtime.tv_nsec,
                     file_attr.val.mtime)
          /\ SplitOf(statx_buf.stx_ctime.tv_sec, statx_buf.stx_ctime.tv_nsec,
                     file_attr.val.ctime)
          /\ SplitOf(statx_buf.stx_btime.tv_sec, statx_buf.stx_btime.tv_nsec,
                     file_attr.val.crtime)

\* The record at hand is the one FileAttrSimple::new just returned.
JustNew == simple_op.op = "new"

\* kind, size and the fields new() sets to the literal 0.
NewKindSizeAndZeros ==
    /\ attr_simple.kind \in 0..6
    /\ attr_simple.size = (IF simple_op.type = "Directory" THEN 4096 ELSE 0)
    /\ attr_simple.blocks = 0
    /\ attr_simple.perm = 0
    /\ attr_simple.nlink = 0
    /\ attr_simple.uid = 0
    /\ attr_simple.gid = 0
    /\ attr_simple.rdev = 0
    /\ attr_simple.flags = 0
    /\ attr_simple.blksize = 0

\* C14 as stated: a freshly created attribute record has a kind among the
\* seven variants, size 4096 for Directory and 0 for every other type, and
\* every other field zero, the four timestamps included.
NewRecordAllElseZero ==
    JustNew =>
        /\ NewKindSizeAndZeros
        /\ attr_simple.atime = 0
        /\ attr_simple.mtime = 0
        /\ attr_simple.ctime = 0
        /\ attr_simple.crtime = 0

\* C14 (amended): a freshly created attribute record has a kind among the
\* seven variants, size 4096 for Directory and 0 for every other type,
\* blocks, perm, nlink, uid, gid, rdev, flags and blksize zero, and its four
\* timestamps hold the clock's time at creation, read in the order atime,
\* mtime, ctime, crtime.
NewRecordFields ==
    JustNew =>
        /\ NewKindSizeAndZeros
        /\ <<attr_simple.atime, attr_simple.mtime, attr_simple.ctime,
             attr_simple.crtime>> \in NowSeqs

\* A directory record just created, the clock moving between the reads.
NewRecordFieldsWitness ==
    /\ JustNew
    /\ simple_op.type = "Directory"
    /\ attr_simple.size = 4096
    /\ attr_simple.kind = 3
    /\ attr_simple.atime > 0
    /\ attr_simple.crtime > attr_simple.atime

\* C15: converting a record whose kind code is none of the seven declared
\* codes (kind > 6) into a FileAttr is surfaced as a decode error; the kind
\* is never coerced to a default file type.
UnknownKindIsError ==
    (simple_op.op = "into" /\ attr_simple.kind > 6) =>
        file_attr.tag = "Err"

\* C16: one numbering of the seven file kinds: the kind code stored by
\* FileAttrSimple::new(t) equals u32::from(t), and FileTypeSimple::try_from
\* and the conversion to FileAttr both map that code back to t.
SingleKindNumbering ==
    simple_op.type \in FileTypeSimple =>
        /\ attr_simple.kind = u32_from_FileTypeSimple(simple_op.type)
        /\ simple_op.op = "try_from" =>
              simple_op.decoded = Ok(simple_op.type)
        /\ simple_op.op = "into" => file_attr.val.kind = simple_op.type

====
